---- MODULE Spec2Model ----
(***************************************************************************)
(* A model of debruijn.py: k-mer extraction, the k-mer count table, the    *)
(* de Bruijn graph, path selection / removal (bubbles and tips) and contig *)
(* reconstruction.                                                         *)
(*                                                                         *)
(* Strings are sequences of one-character strings.  A dict is the sequence *)
(* of its <<key, value>> items in insertion order.  A networkx DiGraph is  *)
(* a record [nodes, succ, weight]: the nodes in insertion order, for each  *)
(* node its successors in insertion order, and the weight of every edge.   *)
(***************************************************************************)
EXTENDS Integers, Sequences, FiniteSets, TLC

VARIABLES pc,        \* which function returned last
          reads,     \* the sequences read_fastq yields
          kmer_size, \* -k
          kmers,     \* [read, out]: the last cut_kmer call and what it yielded
          kmer_dict, \* the k-mer count table
          graph,     \* the DiGraph
          call,      \* the last select_best_path / solve_bubble call: its arguments,
                     \* the branch taken, the index kept, the graph before
          rng,       \* number of 32-bit words drawn from the global generator
          err,       \* the exception that ended the run, or "none"
          nx_single, \* whether all_simple_paths(s, s) yields [s] (library version)
          contigs    \* get_contigs: [starting_nodes, ending_nodes, result], and the
                     \* paths the contigs of result were read along

vars == <<pc, reads, kmer_size, kmers, kmer_dict, graph, call, rng, err,
          nx_single, contigs>>

-----------------------------------------------------------------------------
(* Bounds of the model *)

MaxReads == 1
MaxReadLen == 4
MaxK == 3

Alphabet == {"A", "C"}

-----------------------------------------------------------------------------
(* Python sequences *)

Min(a, b) == IF a < b THEN a ELSE b
Max(a, b) == IF a > b THEN a ELSE b

Range(s) == {s[i] : i \in DOMAIN s}

\* s[lo:hi] for 0 <= lo, clipped to the sequence as Python clips a slice
PySlice(s, lo, hi) ==
    LET h == Min(hi, Len(s))
    IN  IF lo >= h THEN <<>> ELSE [i \in 1..(h - lo) |-> s[lo + i]]

\* s[:-1]
DropLast(s) == IF Len(s) = 0 THEN <<>> ELSE [i \in 1..(Len(s) - 1) |-> s[i]]

\* s[1:]
DropFirst(s) == IF Len(s) = 0 THEN <<>> ELSE [i \in 1..(Len(s) - 1) |-> s[i + 1]]

\* s[1:-1]
Interior(s) == DropLast(DropFirst(s))

\* del s[i] (i from 1)
DelAt(s, i) == [j \in 1..(Len(s) - 1) |-> IF j < i THEN s[j] ELSE s[j + 1]]

\* all strings over Alphabet of length n
RECURSIVE Strings(_)
Strings(n) ==
    IF n = 0 THEN {<<>>}
    ELSE {<<c>> \o s : c \in Alphabet, s \in Strings(n - 1)}

StringsUpTo(n) == UNION {Strings(m) : m \in 0..n}

\* all sequences over S of length at most n
RECURSIVE SeqsUpTo(_, _)
SeqsUpTo(S, n) ==
    IF n = 0 THEN {<<>>}
    ELSE SeqsUpTo(S, n - 1) \cup
         {<<x>> \o s : x \in S, s \in {t \in SeqsUpTo(S, n - 1) : Len(t) = n - 1}}

-----------------------------------------------------------------------------
(* KmerExtractor *)

\* cut_kmer(read, kmer_size): what the generator yields, in order
CutKmerOffByOne(read, k) ==
    [i \in 1..Max(0, Len(read) - k) |-> PySlice(read, i - 1, i - 1 + k)]

cut_kmer(read, k) ==
    [i \in 1..Max(0, Len(read) - k + 1) |-> PySlice(read, i - 1, i - 1 + k)]

\* dict lookup / pop / insert on items in insertion order
DictHas(d, key) == \E i \in DOMAIN d : d[i][1] = key
DictGet(d, key) == d[CHOOSE i \in DOMAIN d : d[i][1] = key][2]
DictPop(d, key) == SelectSeq(d, LAMBDA it : it[1] # key)

\* the body of the inner loop of build_kmer_dict for one k-mer
CountKmer(d, kmer) ==
    IF DictHas(d, kmer)
    THEN Append(DictPop(d, kmer), <<kmer, DictGet(d, kmer) + 1>>)
    ELSE Append(d, <<kmer, 1>>)

RECURSIVE CountKmers(_, _)
CountKmers(d, ks) ==
    IF ks = <<>> THEN d ELSE CountKmers(CountKmer(d, Head(ks)), Tail(ks))

RECURSIVE build_kmer_dict(_, _, _)
build_kmer_dict(d, lines, k) ==
    IF lines = <<>> THEN d
    ELSE build_kmer_dict(CountKmers(d, cut_kmer(Head(lines), k)), Tail(lines), k)

-----------------------------------------------------------------------------
(* networkx.DiGraph *)

EmptyGraph == [nodes |-> <<>>, succ |-> <<>>, weight |-> <<>>]

HasNode(g, n) == n \in Range(g.nodes)
Edges(g) == DOMAIN g.weight

add_node(g, n) ==
    IF HasNode(g, n) THEN g
    ELSE [g EXCEPT !.nodes = Append(@, n), !.succ = (n :> <<>>) @@ @]

\* DiGraph.add_edge(u, v, weight=w): an edge already there keeps its place and
\* takes the new weight
add_edge(g, u, v, w) ==
    LET g1 == add_node(add_node(g, u), v)
    IN  [g1 EXCEPT !.succ[u] = IF v \in Range(@) THEN @ ELSE Append(@, v),
                   !.weight = (<<u, v>> :> w) @@ @]

\* DiGraph.remove_node(n), for a node of the graph
remove_node(g, n) ==
    LET left == SelectSeq(g.nodes, LAMBDA m : m # n)
    IN  [nodes  |-> left,
         succ   |-> [m \in Range(left) |-> SelectSeq(g.succ[m], LAMBDA c : c # n)],
         weight |-> [e \in {f \in Edges(g) : f[1] # n /\ f[2] # n} |-> g.weight[e]]]

\* DiGraph.remove_nodes_from(ns): nodes not in the graph are silently skipped
RECURSIVE remove_nodes_from(_, _)
remove_nodes_from(g, ns) ==
    IF ns = <<>> THEN g
    ELSE remove_nodes_from(IF HasNode(g, Head(ns)) THEN remove_node(g, Head(ns)) ELSE g,
                           Tail(ns))

predecessors(g, n) == {e[1] : e \in {f \in Edges(g) : f[2] = n}}

\* nx.all_simple_paths(g, source, target): depth-first, the successors taken in
\* adjacency order, never beyond target, no node twice
RECURSIVE PathsFrom(_, _, _, _)
PathsFrom(g, path, children, target) ==
    IF children = <<>> THEN <<>>
    ELSE LET c == Head(children)
             here == IF c \in Range(path) THEN <<>>
                     ELSE IF c = target THEN <<Append(path, c)>>
                     ELSE PathsFrom(g, Append(path, c), g.succ[c], target)
         IN  here \o PathsFrom(g, path, Tail(children), target)

\* (source = target: [source] or nothing, by the library's version)
all_simple_paths(g, source, target, single) ==
    IF source = target
    THEN IF single THEN <<(<<source>>)>> ELSE <<>>
    ELSE PathsFrom(g, <<source>>, g.succ[source], target)

\* the nodes reachable from n, n included
RECURSIVE Reach(_, _)
Reach(g, S) ==
    LET T == S \cup {e[2] : e \in {f \in Edges(g) : f[1] \in S}}
    IN  IF T = S THEN S ELSE Reach(g, T)

has_path(g, source, target) == target \in Reach(g, {source})

-----------------------------------------------------------------------------
(* GraphBuilder *)

\* one iteration of the loop of build_graph
AddKmerSwapped(g, item) == add_edge(g, DropFirst(item[1]), DropLast(item[1]), item[2])

AddKmer(g, item) == add_edge(g, DropLast(item[1]), DropFirst(item[1]), item[2])

RECURSIVE BuildFrom(_, _)
BuildFrom(g, items) ==
    IF items = <<>> THEN g ELSE BuildFrom(AddKmer(g, Head(items)), Tail(items))

build_graph(d) == BuildFrom(EmptyGraph, d)

get_starting_nodes(g) == SelectSeq(g.nodes, LAMBDA n : Cardinality(predecessors(g, n)) = 0)

get_sink_nodes(g) == SelectSeq(g.nodes, LAMBDA n : Len(g.succ[n]) = 0)

-----------------------------------------------------------------------------
(* The extraction pipeline: reads -> cut_kmer / build_kmer_dict -> build_graph *)

NoCall == [op |-> "none", kind |-> "none", ends |-> <<>>, path_list |-> <<>>, path_length |-> <<>>,
           weight_avg_list |-> <<>>, delete_entry_node |-> FALSE,
           delete_sink_node |-> FALSE, branch |-> "none", best_index |-> -1,
           rest |-> <<>>, before |-> EmptyGraph, rng_before |-> 0]
NoKmers == [read |-> <<>>, out |-> <<>>]
NoContigs == [starting_nodes |-> <<>>, ending_nodes |-> <<>>, paths |-> <<>>, result |-> <<>>]

InitKmer ==
    /\ pc = "start"
    /\ reads \in SeqsUpTo(StringsUpTo(MaxReadLen), MaxReads)
    /\ kmer_size \in 1..MaxK
    /\ kmers = NoKmers
    /\ kmer_dict = <<>>
    /\ graph = EmptyGraph
    /\ call = NoCall
    /\ rng = 0
    /\ err = "none"
    /\ nx_single = FALSE
    /\ contigs = NoContigs

\* list(cut_kmer(read, kmer_size)) on one of the reads
CutKmer ==
    /\ pc = "start"
    /\ \E i \in DOMAIN reads :
         kmers' = [read |-> reads[i], out |-> cut_kmer(reads[i], kmer_size)]
    /\ pc' = "cut_kmer"
    /\ UNCHANGED <<reads, kmer_size, kmer_dict, graph, call, rng, err, nx_single, contigs>>

BuildKmerDict ==
    /\ pc \in {"start", "cut_kmer"}
    /\ kmer_dict' = build_kmer_dict(<<>>, reads, kmer_size)
    /\ pc' = "build_kmer_dict"
    /\ UNCHANGED <<reads, kmer_size, kmers, graph, call, rng, err, nx_single, contigs>>

BuildGraph ==
    /\ pc = "build_kmer_dict"
    /\ graph' = build_graph(kmer_dict)
    /\ pc' = "build_graph"
    /\ UNCHANGED <<reads, kmer_size, kmers, kmer_dict, call, rng, err, nx_single, contigs>>

NextKmer == CutKmer \/ BuildKmerDict \/ BuildGraph

SpecKmer == InitKmer /\ [][NextKmer]_vars

-----------------------------------------------------------------------------
(* ContigAssembler *)

\* contig = n[0]; for i in range(1, len(n)): contig += n[i][-1]
RECURSIVE AppendLasts(_, _)
AppendLasts(contig, rest) ==
    IF rest = <<>> THEN contig
    ELSE AppendLasts(Append(contig, Head(rest)[Len(Head(rest))]), Tail(rest))

RECURSIVE AppendNodes(_, _)
AppendNodes(contig, rest) ==
    IF rest = <<>> THEN contig ELSE AppendNodes(contig \o Head(rest), Tail(rest))

ContigWholeNodes(n) == AppendNodes(n[1], Tail(n))

ContigOf(n) == AppendLasts(n[1], Tail(n))

\* n[i][-1] raises IndexError on an empty node
ContigRaises(n) == \E i \in 2..Len(n) : n[i] = <<>>

\* the inner loop of get_contigs for one starting node: the paths walked, in
\* order; the first ending node without a path ends the loop (break)
RECURSIVE PathsToSinks(_, _, _, _)
PathsToSinks(g, st, ens, single) ==
    IF ens = <<>> THEN <<>>
    ELSE IF ~has_path(g, st, Head(ens)) THEN <<>>
    ELSE all_simple_paths(g, st, Head(ens), single)
             \o PathsToSinks(g, st, Tail(ens), single)

RECURSIVE ContigPaths(_, _, _, _)
ContigPaths(g, sts, ens, single) ==
    IF sts = <<>> THEN <<>>
    ELSE PathsToSinks(g, Head(sts), ens, single) \o ContigPaths(g, Tail(sts), ens, single)

-----------------------------------------------------------------------------
(* Assembly: a k-mer table -> build_graph -> (nodes removed) -> get_contigs. *)
(* The table is given directly, as build_graph takes any table.              *)

MaxKmers == 3

\* the tables of at most n distinct k-mers of size k, each counted once
Tables(k, n) ==
    {[i \in DOMAIN ks |-> <<ks[i], 1>>] :
        ks \in {t \in SeqsUpTo(Strings(k), n) : \A i, j \in DOMAIN t : i # j => t[i] # t[j]}}

InitContigs ==
    /\ pc = "build_kmer_dict"
    /\ reads = <<>>
    /\ kmer_size \in 1..MaxK
    /\ kmers = NoKmers
    /\ kmer_dict \in Tables(kmer_size, MaxKmers)
    /\ graph = EmptyGraph
    /\ call = NoCall
    /\ rng = 0
    /\ err = "none"
    /\ nx_single = FALSE
    /\ contigs = NoContigs

\* what simplification does to the graph between build_graph and get_contigs:
\* graph.remove_nodes_from(...)
RemoveNode ==
    /\ pc = "build_graph"
    /\ \E n \in Range(graph.nodes) : graph' = remove_nodes_from(graph, <<n>>)
    /\ pc' = "remove_nodes_from"
    /\ UNCHANGED <<reads, kmer_size, kmers, kmer_dict, call, rng, err, nx_single, contigs>>

\* get_contigs(graph, get_starting_nodes(graph), get_sink_nodes(graph))
GetContigs ==
    /\ pc \in {"build_graph", "remove_nodes_from"}
    /\ nx_single' \in (IF \E n \in Range(graph.nodes) :
                              predecessors(graph, n) = {} /\ graph.succ[n] = <<>>
                        THEN BOOLEAN ELSE {FALSE})   \* read only when source = target
    /\ LET sts == get_starting_nodes(graph)
           ens == get_sink_nodes(graph)
           ps == ContigPaths(graph, sts, ens, nx_single')
       IN  IF \E i \in DOMAIN ps : ContigRaises(ps[i])
           THEN /\ err' = "IndexError"
                /\ contigs' = [NoContigs EXCEPT !.starting_nodes = sts, !.ending_nodes = ens]
           ELSE /\ err' = "none"
                /\ contigs' = [starting_nodes |-> sts,
                               ending_nodes |-> ens,
                               paths |-> ps,
                               result |-> [i \in DOMAIN ps |->
                                             <<ContigOf(ps[i]), Len(ContigOf(ps[i]))>>]]
    /\ pc' = "get_contigs"
    /\ UNCHANGED <<reads, kmer_size, kmers, kmer_dict, graph, call, rng>>

NextContigs == BuildGraph \/ RemoveNode \/ GetContigs

SpecContigs == InitContigs /\ [][NextContigs]_vars

-----------------------------------------------------------------------------
(* The global random generator: random.seed(9001), then randint *)

\* the top 8 bits of the successive 32-bit outputs of the Mersenne Twister
\* after random.seed(9001)
MTStream == <<9, 77, 64, 17, 144, 64, 145, 209, 155, 252, 131, 13, 182, 169, 228, 68>>

RECURSIVE BitLength(_)
BitLength(n) == IF n = 0 THEN 0 ELSE 1 + BitLength(n \div 2)

RECURSIVE Pow2(_)
Pow2(k) == IF k = 0 THEN 1 ELSE 2 * Pow2(k - 1)

\* getrandbits(k), k <= 8, as the word after `pos` words gives it
GetRandBits(pos, k) == MTStream[pos + 1] \div Pow2(8 - k)

\* Random._randbelow(n): draw n.bit_length() bits until the draw is below n.
\* [value, pos]: the number drawn and the words consumed so far; value -1 when
\* the modelled prefix of the stream is used up.
RECURSIVE RandBelow(_, _)
RandBelow(pos, n) ==
    IF pos >= Len(MTStream) THEN [value |-> -1, pos |-> pos]
    ELSE LET r == GetRandBits(pos, BitLength(n))
         IN  IF r < n THEN [value |-> r, pos |-> pos + 1] ELSE RandBelow(pos + 1, n)

\* randint(a, b) = a + _randbelow(b - a + 1)
randint(pos, a, b) ==
    LET d == RandBelow(pos, b - a + 1)
    IN  [value |-> IF d.value < 0 THEN -1 ELSE a + d.value, pos |-> d.pos]

-----------------------------------------------------------------------------
(* PathResolver *)

\* an average is kept exact, as [sum, n]
AvgEq(x, y) == x.sum * y.n = y.sum * x.n
AvgLess(x, y) == x.sum * y.n < y.sum * x.n

RECURSIVE SumWeights(_, _)
SumWeights(g, E) ==
    IF E = {} THEN 0
    ELSE LET e == CHOOSE f \in E : TRUE IN g.weight[e] + SumWeights(g, E \ {e})

\* path_average_weight(graph, path): the mean weight over the edges of
\* graph.subgraph(path)
path_average_weight(g, path) ==
    LET E == {e \in Edges(g) : e[1] \in Range(path) /\ e[2] \in Range(path)}
    IN  [sum |-> SumWeights(g, E), n |-> Cardinality(E)]

\* statistics.stdev(data) raises StatisticsError on fewer than two values
StdRaises(data) == Len(data) < 2

\* std(weight_avg_list) > 0, std(path_length) > 0: the values are not all equal
StdAvgPositive(data) == \E i, j \in DOMAIN data : ~AvgEq(data[i], data[j])
StdPositive(data) == \E i, j \in DOMAIN data : data[i] # data[j]

\* weight_avg_list.index(max(weight_avg_list)), path_length.index(max(path_length)):
\* the first position (from 0) of a greatest value
WorstAvgIndex(data) ==
    (CHOOSE i \in DOMAIN data :
        /\ \A j \in DOMAIN data : ~AvgLess(data[j], data[i])
        /\ \A j \in 1..(i - 1) : AvgLess(data[i], data[j])) - 1

BestAvgIndex(data) ==
    (CHOOSE i \in DOMAIN data :
        /\ \A j \in DOMAIN data : ~AvgLess(data[i], data[j])
        /\ \A j \in 1..(i - 1) : AvgLess(data[j], data[i])) - 1

BestIndex(data) ==
    (CHOOSE i \in DOMAIN data :
        /\ \A j \in DOMAIN data : data[j] <= data[i]
        /\ \A j \in 1..(i - 1) : data[j] < data[i]) - 1

\* the nodes remove_paths removes for one path
PathVictims(path, delete_entry_node, delete_sink_node) ==
    IF delete_entry_node /\ delete_sink_node THEN path
    ELSE IF delete_entry_node /\ ~delete_sink_node THEN DropLast(path)
    ELSE IF ~delete_entry_node /\ delete_sink_node THEN DropFirst(path)
    ELSE Interior(path)

RECURSIVE remove_paths(_, _, _, _)
remove_paths(g, path_list, delete_entry_node, delete_sink_node) ==
    IF path_list = <<>> THEN g
    ELSE remove_paths(
             remove_nodes_from(g, PathVictims(Head(path_list), delete_entry_node,
                                              delete_sink_node)),
             Tail(path_list), delete_entry_node, delete_sink_node)

\* select_best_path: [err, branch, best_index, rest, graph, rng], rest being
\* path_list after `del path_list[best_index]`, the paths given to remove_paths
select_best_path(g, path_list, path_length, weight_avg_list, delete_entry_node, delete_sink_node, pos) ==
    LET Raise(e) == [err |-> e, branch |-> "raise", best_index |-> -1,
                     rest |-> path_list, graph |-> g, rng |-> pos]
        Keep(branch, i, p) ==
            [err |-> "none", branch |-> branch, best_index |-> i,
             rest |-> DelAt(path_list, i + 1),
             graph |-> remove_paths(g, DelAt(path_list, i + 1),
                                    delete_entry_node, delete_sink_node),
             rng |-> p]
    IN  IF StdRaises(weight_avg_list) THEN Raise("StatisticsError")
        ELSE IF StdAvgPositive(weight_avg_list)
             THEN Keep("weight", BestAvgIndex(weight_avg_list), pos)
        ELSE IF StdRaises(path_length) THEN Raise("StatisticsError")
        ELSE IF StdPositive(path_length)
             THEN Keep("length", BestIndex(path_length), pos)
        ELSE LET r == randint(pos, 0, Len(path_list) - 1)
             IN  Keep("random", r.value, r.pos)

-----------------------------------------------------------------------------
(* Resolution: select_best_path / solve_bubble called again and again on a    *)
(* weighted graph, as the tests of the resolver build one                     *)

MaxWeight == 2
MaxWords == 6

Nodes == 1..4
DagEdges == {e \in Nodes \X Nodes : e[1] < e[2]}

\* the edges of E in the order add_weighted_edges_from is given them
RECURSIVE SortedEdges(_)
SortedEdges(E) ==
    IF E = {} THEN <<>>
    ELSE LET e == CHOOSE f \in E : \A h \in E :
                      f[1] < h[1] \/ (f[1] = h[1] /\ f[2] <= h[2])
         IN  <<e>> \o SortedEdges(E \ {e})

RECURSIVE AddWeightedEdges(_, _, _)
AddWeightedEdges(g, es, w) ==
    IF es = <<>> THEN g
    ELSE AddWeightedEdges(add_edge(g, Head(es)[1], Head(es)[2], w[Head(es)]), Tail(es), w)

InitResolve ==
    /\ pc = "start"
    /\ reads = <<>>
    /\ kmer_size = 1
    /\ kmers = NoKmers
    /\ kmer_dict = <<>>
    /\ \E E \in SUBSET DagEdges :
         \E w \in [E -> 1..MaxWeight] :
            graph = AddWeightedEdges(EmptyGraph, SortedEdges(E), w)
    /\ call = NoCall
    /\ rng = 0
    /\ err = "none"
    /\ nx_single = FALSE
    /\ contigs = NoContigs

\* the candidate paths of a bubble: every simple path from ancestor to descendant
BubblePaths(g, ancestor, descendant) == all_simple_paths(g, ancestor, descendant, FALSE)

\* the candidate paths of an entry tip at n: the simple paths from the
\* starting nodes to n
RECURSIVE PathsInto(_, _, _)
PathsInto(g, sts, n) ==
    IF sts = <<>> THEN <<>>
    ELSE (IF Head(sts) # n /\ has_path(g, Head(sts), n)
          THEN all_simple_paths(g, Head(sts), n, FALSE) ELSE <<>>)
         \o PathsInto(g, Tail(sts), n)

\* the candidate paths of an output tip at n: the simple paths from n to the sinks
RECURSIVE PathsOutOf(_, _, _)
PathsOutOf(g, n, ens) ==
    IF ens = <<>> THEN <<>>
    ELSE (IF Head(ens) # n /\ has_path(g, n, Head(ens))
          THEN all_simple_paths(g, n, Head(ens), FALSE) ELSE <<>>)
         \o PathsOutOf(g, n, Tail(ens))

\* the calls the resolver makes on g: a bubble keeps both its ends, an entry
\* tip loses its starting node, an output tip its sink
Candidates(g) ==
    {[kind |-> "bubble", path_list |-> BubblePaths(g, p[1], p[2]),
      delete_entry_node |-> FALSE, delete_sink_node |-> FALSE] :
        p \in {q \in Range(g.nodes) \X Range(g.nodes) : q[1] # q[2]}}
    \cup {[kind |-> "entry_tip", path_list |-> PathsInto(g, get_starting_nodes(g), n),
           delete_entry_node |-> TRUE, delete_sink_node |-> FALSE] :
            n \in Range(g.nodes)}
    \cup {[kind |-> "out_tip", path_list |-> PathsOutOf(g, n, get_sink_nodes(g)),
           delete_entry_node |-> FALSE, delete_sink_node |-> TRUE] :
            n \in Range(g.nodes)}

\* select_best_path(graph, path_list, path_length, weight_avg_list,
\*                  delete_entry_node, delete_sink_node)
SelectBestPath ==
    /\ pc \in {"start", "select_best_path"}
    /\ err = "none"
    /\ \E c \in Candidates(graph) :
         LET path_list == c.path_list
             delete_entry_node == c.delete_entry_node
             delete_sink_node == c.delete_sink_node
             path_length == [i \in DOMAIN path_list |-> Len(path_list[i])]
             weight_avg_list ==
                 [i \in DOMAIN path_list |-> path_average_weight(graph, path_list[i])]
             r == select_best_path(graph, path_list, path_length, weight_avg_list,
                                   delete_entry_node, delete_sink_node, rng)
         IN  /\ r.err = "none" => r.best_index >= 0 /\ r.rng <= MaxWords
             /\ call' = [op |-> "select_best_path", kind |-> c.kind, ends |-> <<>>,
                         path_list |-> path_list, path_length |-> path_length,
                         weight_avg_list |-> weight_avg_list,
                         delete_entry_node |-> delete_entry_node,
                         delete_sink_node |-> delete_sink_node,
                         branch |-> r.branch, best_index |-> r.best_index,
                         rest |-> r.rest, before |-> graph, rng_before |-> rng]
             /\ graph' = r.graph
             /\ rng' = r.rng
             /\ err' = r.err
    /\ pc' = "select_best_path"
    /\ UNCHANGED <<reads, kmer_size, kmers, kmer_dict, nx_single, contigs>>

\* solve_bubble(graph, ancestor_node, descendant_node): its first statement
\* reads the undefined name `graphe`
SolveBubble ==
    /\ pc \in {"start", "select_best_path"}
    /\ err = "none"
    /\ \E a \in Range(graph.nodes) : \E d \in Range(graph.nodes) \ {a} :
         call' = [NoCall EXCEPT !.op = "solve_bubble", !.kind = "bubble",
                                !.ends = <<a, d>>, !.branch = "raise",
                                !.before = graph, !.rng_before = rng]
    /\ err' = "NameError"
    /\ pc' = "solve_bubble"
    /\ UNCHANGED <<reads, kmer_size, kmers, kmer_dict, graph, rng, nx_single, contigs>>

NextResolve == SelectBestPath \/ SolveBubble

SpecResolve == InitResolve /\ [][NextResolve]_vars

-----------------------------------------------------------------------------
(* Claims about the extraction pipeline (under SpecKmer) *)

\* C6: for a read of length L and k >= 1, cut_kmer yields exactly the
\* substrings read[i:i+k], i = 0..L-k, in offset order: L-k+1 k-mers of length
\* k when k <= L, consecutive ones overlapping in k-1 characters, and nothing
\* when k > L.
CutKmerYieldsAllKmers ==
    pc = "cut_kmer" =>
        LET read == kmers.read
            out == kmers.out
            L == Len(read)
            k == kmer_size
        IN  /\ k <= L => Len(out) = L - k + 1
            /\ k > L => out = <<>>
            /\ \A i \in DOMAIN out :
                 /\ Len(out[i]) = k
                 /\ \A j \in 1..k : out[i][j] = read[i + j - 1]
            /\ \A i \in 1..(Len(out) - 1) : DropFirst(out[i]) = DropLast(out[i + 1])

\* a read cut into at least two overlapping k-mers of two or more characters
CutKmerWitness ==
    /\ pc = "cut_kmer"
    /\ kmer_size >= 2
    /\ Len(kmers.out) >= 2
    /\ Len(kmers.out) = Len(kmers.read) - kmer_size + 1

\* the edge build_graph is to draw for a table entry
EdgeOf(item) == <<DropLast(item[1]), DropFirst(item[1])>>

\* the table's entries are faithfully the graph's edges
TableIsGraph ==
    /\ Cardinality(Edges(graph)) = Len(kmer_dict)
    /\ Edges(graph) = {EdgeOf(kmer_dict[i]) : i \in DOMAIN kmer_dict}
    /\ \A i \in DOMAIN kmer_dict : graph.weight[EdgeOf(kmer_dict[i])] = kmer_dict[i][2]
    /\ \A i, j \in DOMAIN kmer_dict : i # j => EdgeOf(kmer_dict[i]) # EdgeOf(kmer_dict[j])
    /\ Range(graph.nodes) =
         UNION {{EdgeOf(kmer_dict[i])[1], EdgeOf(kmer_dict[i])[2]} : i \in DOMAIN kmer_dict}

\* C5 as stated: for every table with k >= 1, build_graph gives exactly one
\* edge per entry, prefix -> suffix, weighted by the entry's count, distinct
\* k-mers giving distinct edges, and the nodes are the prefixes and suffixes.
BuildGraphOneEdgePerKmer ==
    (pc = "build_graph" /\ kmer_size >= 1) => TableIsGraph

\* C5 amended: the same for k >= 2; for k = 1 every entry is the self-loop on
\* the empty node, which carries the count of the last entry of the table.
BuildGraphOneEdgePerKmerFrom2 ==
    pc = "build_graph" =>
        /\ kmer_size >= 2 => TableIsGraph
        /\ (kmer_size = 1 /\ kmer_dict # <<>>) =>
             /\ Edges(graph) = {<< <<>>, <<>> >>}
             /\ graph.weight[<< <<>>, <<>> >>] = kmer_dict[Len(kmer_dict)][2]

\* a graph built from a table of two or more k-mers, one of them seen twice
BuildGraphWitness ==
    /\ pc = "build_graph"
    /\ kmer_size >= 2
    /\ Len(kmer_dict) >= 2
    /\ \E i \in DOMAIN kmer_dict : kmer_dict[i][2] >= 2

-----------------------------------------------------------------------------
(* Claims about contig assembly (under SpecContigs) *)

\* the contigs of one (start, sink) pair: one per simple path between them
PairPaths(g, st, en, single) ==
    IF has_path(g, st, en) THEN all_simple_paths(g, st, en, single) ELSE <<>>

RECURSIVE AllSinksPaths(_, _, _, _)
AllSinksPaths(g, st, ens, single) ==
    IF ens = <<>> THEN <<>>
    ELSE PairPaths(g, st, Head(ens), single) \o AllSinksPaths(g, st, Tail(ens), single)

RECURSIVE AllPairsPaths(_, _, _, _)
AllPairsPaths(g, sts, ens, single) ==
    IF sts = <<>> THEN <<>>
    ELSE AllSinksPaths(g, Head(sts), ens, single) \o AllPairsPaths(g, Tail(sts), ens, single)

\* C2: get_contigs returns, for every (start, sink) pair joined by a path, one
\* contig per simple path between them; a pair without a path contributes
\* nothing, raises nothing and takes nothing away from the other pairs, the
\* later sinks of the same start included.
GetContigsCoversEveryPair ==
    pc = "get_contigs" =>
        /\ err = "none"
        /\ contigs.paths = AllPairsPaths(graph, contigs.starting_nodes,
                                         contigs.ending_nodes, nx_single)
        /\ Len(contigs.result) = Len(contigs.paths)

\* C7: along a simple path of n >= 1 nodes of length k-1 the contig is the
\* first node followed by the last character of every later node, its length
\* is (k-1) + (n-1), and the recorded length is the length of the string.
ContigAlongPath ==
    pc = "get_contigs" =>
        /\ Len(contigs.result) = Len(contigs.paths)
        /\ \A i \in DOMAIN contigs.result :
             LET n == contigs.paths[i]
                 contig == contigs.result[i][1]
                 first == Len(n[1])
             IN  /\ \A j \in DOMAIN n : Len(n[j]) = kmer_size - 1
                 /\ Len(contig) = (kmer_size - 1) + (Len(n) - 1)
                 /\ \A j \in 1..first : contig[j] = n[1][j]
                 /\ \A j \in 2..Len(n) : contig[first + j - 1] = n[j][Len(n[j])]
                 /\ contigs.result[i][2] = Len(contig)

\* get_contigs read a contig along a path of three or more nodes
ContigWitness ==
    /\ pc = "get_contigs"
    /\ \E i \in DOMAIN contigs.result :
         /\ Len(contigs.paths[i]) >= 3
         /\ contigs.result[i][2] = kmer_size + 1

\* get_contigs read the contig of a one-node path (an isolated node)
ContigSingleNodeReached ==
    /\ pc = "get_contigs"
    /\ \E i \in DOMAIN contigs.result : Len(contigs.paths[i]) = 1

-----------------------------------------------------------------------------
(* Claims about resolution (under SpecResolve) *)

Resolved == call.op = "select_best_path" /\ err = "none"
Kept == call.path_list[call.best_index + 1]
Last(path) == path[Len(path)]
Size(g) == Len(g.nodes) + Cardinality(Edges(g))

\* C1: resolving a bubble (delete_entry_node = delete_sink_node = False) whose
\* ancestor and descendant are joined by two or more simple paths leaves
\* exactly one simple path from the ancestor to the descendant, also when the
\* candidate paths share interior nodes.
BubbleLeavesOnePath ==
    (Resolved /\ call.kind = "bubble" /\ Len(call.path_list) >= 2) =>
        Len(all_simple_paths(graph, Kept[1], Last(Kept), FALSE)) = 1

\* C3: resolving an entry tip removes the starting node of every path that is
\* not retained, resolving an output tip removes the end node of every path
\* that is not retained, and every node of the retained path stays in the
\* graph.  (Stated for the calls where no dangling end lies on the retained
\* path.)
TipKeepsSharedNodes ==
    /\ (Resolved /\ call.kind = "entry_tip" /\ Len(call.path_list) >= 2
        /\ \A i \in DOMAIN call.rest : call.rest[i][1] \notin Range(Kept)) =>
           /\ \A i \in DOMAIN call.rest : ~HasNode(graph, call.rest[i][1])
           /\ \A n \in Range(Kept) : HasNode(graph, n)
    /\ (Resolved /\ call.kind = "out_tip" /\ Len(call.path_list) >= 2
        /\ \A i \in DOMAIN call.rest : Last(call.rest[i]) \notin Range(Kept)) =>
           /\ \A i \in DOMAIN call.rest : ~HasNode(graph, Last(call.rest[i]))
           /\ \A n \in Range(Kept) : HasNode(graph, n)

\* C4: in the random tie-break the choice depends on the inputs and the seed
\* alone: it is the choice a run makes that has drawn nothing from the
\* generator before, however many draws earlier resolution steps consumed.
ChoiceIndependentOfEarlierDraws ==
    (Resolved /\ call.branch = "random") =>
        call.best_index = randint(0, 0, Len(call.path_list) - 1).value

\* C8: the selection policy.  If the average weights are not all equal the
\* path kept has the greatest average weight; otherwise, if the lengths are
\* not all equal, it has the greatest length; the random source chooses only
\* when weights and lengths are all equal, with an index in
\* 0..len(path_list)-1.  Every other candidate, and only those, goes to
\* remove_paths.
SelectionPolicy ==
    Resolved =>
        LET n == Len(call.path_list)
            avg == call.weight_avg_list
            len == call.path_length
            k == call.best_index + 1
            WeightsDiffer == \E i, j \in 1..n : ~AvgEq(avg[i], avg[j])
            LengthsDiffer == \E i, j \in 1..n : len[i] # len[j]
        IN  /\ k \in 1..n
            /\ WeightsDiffer =>
                 /\ call.branch = "weight"
                 /\ \A j \in 1..n : ~AvgLess(avg[k], avg[j])
            /\ (~WeightsDiffer /\ LengthsDiffer) =>
                 /\ call.branch = "length"
                 /\ \A j \in 1..n : len[j] <= len[k]
            /\ call.branch = "random" <=> (~WeightsDiffer /\ ~LengthsDiffer)
            /\ Len(call.rest) = n - 1
            /\ \A i \in 1..n : (i # k) <=> (\E j \in DOMAIN call.rest :
                                               call.rest[j] = call.path_list[i])
            /\ \A i \in 1..n :
                 i # k => \A v \in Range(PathVictims(call.path_list[i],
                                                     call.delete_entry_node,
                                                     call.delete_sink_node)) :
                             ~HasNode(graph, v)

\* the weights tie, the lengths decide, and the path kept is not the first
SelectionWitness ==
    /\ Resolved
    /\ call.branch = "length"
    /\ Len(call.path_list) >= 2
    /\ call.best_index >= 1
    /\ graph # call.before

\* the random source chose among tied candidates after an earlier random choice
RandomBranchTwiceReached ==
    /\ Resolved
    /\ call.branch = "random"
    /\ call.rng_before >= 1

\* C9: a resolution step on two or more candidate paths removes at least one
\* node or edge, whatever the deletion flags, also when a candidate path is
\* the bare edge from ancestor to descendant.
StepShrinksGraph ==
    (Resolved /\ Len(call.path_list) >= 2) => Size(graph) < Size(call.before)

\* C10: on an empty candidate list the step raises nothing and leaves the
\* nodes and edges of the graph as they were.
EmptyCandidatesNoOp ==
    (call.op = "select_best_path" /\ call.path_list = <<>>) =>
        /\ err = "none"
        /\ graph = call.before

====
